---- MODULE Spec2Model ----
(***************************************************************************)
(* Age of War (src/age_of_war.py): units with a fixed advantage relation,  *)
(* the single Battle evaluation, Army objects holding a list of platoons,  *)
(* the text parser that builds an Army, and WarSimulation's exhaustive     *)
(* search over the orderings of the attacking Army.                        *)
(*                                                                         *)
(* A Python list is an object: the model keeps the lists in a heap and an  *)
(* Army holds the identity of its list, so that two holders of one list    *)
(* see each other's changes exactly as they do in Python.                  *)
(***************************************************************************)
EXTENDS Integers, Sequences, FiniteSets

VARIABLES
    pc,                 \* where the client of the classes stands
    heap,               \* list objects: identity -> contents
    attacking_army,     \* WarSimulation._attacking_army (an Army or NoArmy)
    defending_army,     \* WarSimulation._defending_army (an Army or NoArmy)
    defending_platoons, \* find_winning_arrangement: local copy of the defenders
    pool,               \* itertools.permutations: its tuple of the attackers
    indices,            \* itertools.permutations: the current index order
    evaluated,          \* number of arrangements handed to _simulate_battles
    result,             \* what find_winning_arrangement returned
    report,             \* what get_battle_report returned
    attacker,           \* Battle._attacker
    defender,           \* Battle._defender
    battle,             \* the constructed Battle (or NoBattle)
    platoon_string,     \* the text handed to PlatoonParser.parse_army
    parsed              \* what parse_army returned (an Army's list or an error)

vars == <<pc, heap, attacking_army, defending_army, defending_platoons, pool,
          indices, evaluated, result, report, attacker, defender, battle,
          platoon_string, parsed>>

simVars == <<pc, heap, attacking_army, defending_army, defending_platoons,
             pool, indices, evaluated, result, report>>
battleVars == <<attacker, defender, battle>>
parseVars == <<platoon_string, parsed>>

----------------------------------------------------------------------------
(* Bounds of the model *)

\* longest platoon list the client builds by hand
MaxLen == 3
\* largest platoon count drawn for a single Battle
MaxCount == 4
\* most entries in a text handed to the parser
MaxEntries == 3

----------------------------------------------------------------------------
(* UnitType, BattleOutcome *)

UnitType ==
    {"Militia", "Spearmen", "LightCavalry", "HeavyCavalry", "FootArcher",
     "CavalryArcher"}

WIN == "Win"
DRAW == "Draw"
LOSS == "Loss"
BattleOutcome == {WIN, DRAW, LOSS}

(* Unit.__init__: stores the count as given, and the subclass's type. *)
Unit(unit_type, count) == [unit_type |-> unit_type, count |-> count]

(* get_advantages of the six Unit subclasses. *)
get_advantages_no_heavy(unit_type) ==
    CASE unit_type = "Militia" -> {"Spearmen", "LightCavalry"}
      [] unit_type = "Spearmen" -> {"LightCavalry", "HeavyCavalry"}
      [] unit_type = "LightCavalry" -> {"FootArcher", "CavalryArcher"}
      [] unit_type = "HeavyCavalry" -> {"Militia", "FootArcher", "LightCavalry"}
      [] unit_type = "FootArcher" -> {"Militia", "CavalryArcher"}
      [] unit_type = "CavalryArcher" -> {"Spearmen"}

get_advantages_mutual(unit_type) ==
    CASE unit_type = "Militia" -> {"Spearmen", "LightCavalry"}
      [] unit_type = "Spearmen" -> {"LightCavalry", "HeavyCavalry", "Militia"}
      [] unit_type = "LightCavalry" -> {"FootArcher", "CavalryArcher"}
      [] unit_type = "HeavyCavalry" -> {"Militia", "FootArcher", "LightCavalry"}
      [] unit_type = "FootArcher" -> {"Militia", "CavalryArcher"}
      [] unit_type = "CavalryArcher" -> {"Spearmen", "HeavyCavalry"}

get_advantages(unit_type) ==
    CASE unit_type = "Militia" -> {"Spearmen", "LightCavalry"}
      [] unit_type = "Spearmen" -> {"LightCavalry", "HeavyCavalry"}
      [] unit_type = "LightCavalry" -> {"FootArcher", "CavalryArcher"}
      [] unit_type = "HeavyCavalry" -> {"Militia", "FootArcher", "LightCavalry"}
      [] unit_type = "FootArcher" -> {"Militia", "CavalryArcher"}
      [] unit_type = "CavalryArcher" -> {"Spearmen", "HeavyCavalry"}

(* Unit.has_advantage_over *)
has_advantage_over(unit, other_unit) ==
    other_unit.unit_type \in get_advantages(unit.unit_type)

(* UnitFactory.create_unit: every UnitType has a class; the count is passed on. *)
create_unit(unit_type, count) == Unit(unit_type, count)

----------------------------------------------------------------------------
(* Battle *)

ADVANTAGE_MULTIPLIER == 2

get_effective_count_round_up(att, def) ==
    IF has_advantage_over(att, def)
    THEN att.count * ADVANTAGE_MULTIPLIER
    ELSE IF has_advantage_over(def, att)
         THEN (att.count + 1) \div ADVANTAGE_MULTIPLIER
         ELSE att.count

(* Battle._get_effective_count; // is floor division, as \div is. *)
get_effective_count(att, def) ==
    IF has_advantage_over(att, def)
    THEN att.count * ADVANTAGE_MULTIPLIER
    ELSE IF has_advantage_over(def, att)
         THEN att.count \div ADVANTAGE_MULTIPLIER
         ELSE att.count

(* Battle._calculate_outcome *)
calculate_outcome(att, def) ==
    LET effective_attacker_count == get_effective_count(att, def)
        defender_count == def.count
    IN  IF effective_attacker_count > defender_count THEN WIN
        ELSE IF effective_attacker_count = defender_count THEN DRAW
        ELSE LOSS

(* Battle.__init__ *)
Battle(att, def) ==
    [attacker |-> att, defender |-> def, outcome |-> calculate_outcome(att, def)]

NoBattle == [outcome |-> "none"]

----------------------------------------------------------------------------
(* Army *)

NoArmy == [platoons |-> "none"]

(* Army.__init__: keeps the list object it was given, not a copy of it. *)
ArmyInit(list_id) == [platoons |-> list_id]

(* Army.platoons: a copy of the list's contents at the time of the call. *)
platoons(army, h) == h[army.platoons]

(* Army.get_platoon_count *)
get_platoon_count(army, h) == Len(h[army.platoons])

----------------------------------------------------------------------------
(* PlatoonParser.  A text is a sequence of tokens: the separators ";" and  *)
(* "#", the sign "-", the digits, and words (a run of letters).            *)

Digits == <<"0", "1", "2", "3", "4", "5", "6", "7", "8", "9">>

IsDigit(tok) == \E d \in 1..Len(Digits) : Digits[d] = tok

DigitValue(tok) == (CHOOSE d \in 1..Len(Digits) : Digits[d] = tok) - 1

(* str.split(sep): the pieces between the separators, empty pieces kept. *)
RECURSIVE split(_, _)
split(text, sep) ==
    IF \A i \in 1..Len(text) : text[i] # sep
    THEN <<text>>
    ELSE LET first == CHOOSE i \in 1..Len(text) :
                          /\ text[i] = sep
                          /\ \A j \in 1..(i - 1) : text[j] # sep
         IN  <<SubSeq(text, 1, first - 1)>>
                 \o split(SubSeq(text, first + 1, Len(text)), sep)

(* UnitType(unit_type_str): the text must be exactly one member's value. *)
IsUnitTypeStr(text) == Len(text) = 1 /\ text[1] \in UnitType

RECURSIVE DecimalValue(_)
DecimalValue(digits) ==
    IF digits = <<>> THEN 0
    ELSE 10 * DecimalValue(SubSeq(digits, 1, Len(digits) - 1))
            + DigitValue(digits[Len(digits)])

IsDecimal(text) == Len(text) >= 1 /\ \A i \in 1..Len(text) : IsDigit(text[i])

(* int(count_str): an optional sign, then at least one digit. *)
IsIntStr(text) ==
    \/ IsDecimal(text)
    \/ Len(text) >= 2 /\ text[1] = "-" /\ IsDecimal(Tail(text))

int(text) ==
    IF text[1] = "-" THEN 0 - DecimalValue(Tail(text)) ELSE DecimalValue(text)

NotParsed == [status |-> "unset", platoons |-> <<>>]

ParseError == [status |-> "ValueError", platoons |-> <<>>]

(* One pass of the loop body of parse_army; FALSE when the pass raises. *)
EntryParses(platoon_data) ==
    LET parts == split(platoon_data, "#")
    IN  /\ Len(parts) = 2
        /\ IsUnitTypeStr(parts[1])
        /\ IsIntStr(parts[2])

EntryUnit(platoon_data) ==
    LET parts == split(platoon_data, "#")
    IN  create_unit(parts[1][1], int(parts[2]))

(* PlatoonParser.parse_army: the list it hands to Army, or the error. *)
parse_army(text) ==
    LET entries == split(text, ";")
    IN  IF \A i \in 1..Len(entries) : EntryParses(entries[i])
        THEN [status |-> "Army",
              platoons |-> [i \in 1..Len(entries) |-> EntryUnit(entries[i])]]
        ELSE ParseError

----------------------------------------------------------------------------
(* itertools.permutations(iterable): the orderings of the positions of the *)
(* iterable, emitted in lexicographic order of the positions.              *)

FirstIndices(n) == [i \in 1..n |-> i]

HasNextIndices_last_pair(p) == Len(p) >= 2 /\ p[Len(p) - 1] < p[Len(p)]

HasNextIndices(p) == \E i \in 1..(Len(p) - 1) : p[i] < p[i + 1]

NextIndices_swap_only(p) ==
    LET n == Len(p)
        i == CHOOSE k \in 1..(n - 1) :
                 /\ p[k] < p[k + 1]
                 /\ \A m \in (k + 1)..(n - 1) : p[m] > p[m + 1]
        j == CHOOSE k \in (i + 1)..n :
                 /\ p[k] > p[i]
                 /\ \A m \in (k + 1)..n : p[m] < p[i]
    IN  [k \in 1..n |-> IF k = i THEN p[j] ELSE IF k = j THEN p[i] ELSE p[k]]

(* The next ordering: the last ascent is raised to the next larger position *)
(* and what follows it is put in increasing order.                          *)
NextIndices(p) ==
    LET n == Len(p)
        i == CHOOSE k \in 1..(n - 1) :
                 /\ p[k] < p[k + 1]
                 /\ \A m \in (k + 1)..(n - 1) : p[m] > p[m + 1]
        j == CHOOSE k \in (i + 1)..n :
                 /\ p[k] > p[i]
                 /\ \A m \in (k + 1)..n : p[m] < p[i]
        swapped == [k \in 1..n |->
                       IF k = i THEN p[j] ELSE IF k = j THEN p[i] ELSE p[k]]
    IN  [k \in 1..n |-> IF k <= i THEN swapped[k] ELSE swapped[n + i + 1 - k]]

(* The tuple permutations yields for an index order. *)
Arrangement(items, p) == [k \in 1..Len(p) |-> items[p[k]]]

----------------------------------------------------------------------------
(* WarSimulation *)

REQUIRED_WINS == 3

validate_armies_attackers_fit(att_army, def_army, h) ==
    get_platoon_count(att_army, h) <= get_platoon_count(def_army, h)

(* WarSimulation._validate_armies: TRUE when it returns, FALSE when it raises. *)
validate_armies(att_army, def_army, h) ==
    get_platoon_count(att_army, h) = get_platoon_count(def_army, h)

Min(a, b) == IF a < b THEN a ELSE b

(* WarSimulation._simulate_battles: zip stops at the shorter list. *)
simulate_battles(attacking_platoons, defending) ==
    [i \in 1..Min(Len(attacking_platoons), Len(defending)) |->
        Battle(attacking_platoons[i], defending[i])]

Wins(battles) ==
    Cardinality({i \in 1..Len(battles) : battles[i].outcome = WIN})

is_winning_arrangement_no_draws(battles) ==
    Cardinality({i \in 1..Len(battles) : battles[i].outcome # LOSS})
        >= REQUIRED_WINS

(* WarSimulation._is_winning_arrangement *)
is_winning_arrangement(battles) == Wins(battles) >= REQUIRED_WINS

(* WarSimulation.get_battle_report *)
get_battle_report(army_arrangement, def_army, h) ==
    simulate_battles(platoons(army_arrangement, h), platoons(def_army, h))

NotReturned == [kind |-> "unset", army |-> NoArmy]
None == [kind |-> "None", army |-> NoArmy]
Found(army) == [kind |-> "Army", army |-> army]

----------------------------------------------------------------------------
(* Inputs *)

(* GameTestSuite.run_sample_test: the two army texts. *)
SampleAttacking ==
    <<"Spearmen", "#", "1", "0", ";", "Militia", "#", "3", "0", ";",
      "FootArcher", "#", "2", "0", ";", "LightCavalry", "#", "1", "0", "0", "0",
      ";", "HeavyCavalry", "#", "1", "2", "0">>

SampleDefending ==
    <<"Militia", "#", "1", "0", ";", "Spearmen", "#", "1", "0", ";",
      "FootArcher", "#", "1", "0", "0", "0", ";", "LightCavalry", "#", "1", "2",
      "0", ";", "CavalryArcher", "#", "1", "0", "0">>

\* platoons a client puts in a hand-built attacking list
AttackUnits ==
    {Unit("HeavyCavalry", 2), Unit("Militia", 2), Unit("Spearmen", 0)}

\* platoons a client puts in a hand-built defending list
DefendUnits == {Unit("Spearmen", 1), Unit("Militia", 2)}

Lists(units) == UNION {[1..n -> units] : n \in 0..MaxLen}

ListIds == {"att", "def", "view", "res"}

NoUnit == [unit_type |-> "none", count |-> 0]

SimIdle ==
    /\ pc = "idle"
    /\ heap = [id \in ListIds |-> <<>>]
    /\ attacking_army = NoArmy
    /\ defending_army = NoArmy
    /\ defending_platoons = <<>>
    /\ pool = <<>>
    /\ indices = <<>>
    /\ evaluated = 0
    /\ result = NotReturned
    /\ report = <<>>

BattleIdle ==
    /\ attacker = NoUnit
    /\ defender = NoUnit
    /\ battle = NoBattle

ParseIdle ==
    /\ platoon_string = <<>>
    /\ parsed = NotParsed

----------------------------------------------------------------------------
(* A client of Army and WarSimulation: it builds two lists, wraps each in  *)
(* an Army, builds the WarSimulation, searches and asks for the report.    *)
(* Between its calls it may change the lists it still holds.               *)

Init ==
    /\ pc = "start"
    /\ \/ \E a \in Lists(AttackUnits), d \in Lists(DefendUnits) :
              heap = [id \in ListIds |->
                         IF id = "att" THEN a ELSE IF id = "def" THEN d ELSE <<>>]
       \/ heap = [id \in ListIds |->
                     IF id = "att" THEN parse_army(SampleAttacking).platoons
                     ELSE IF id = "def" THEN parse_army(SampleDefending).platoons
                     ELSE <<>>]
    /\ attacking_army = NoArmy
    /\ defending_army = NoArmy
    /\ defending_platoons = <<>>
    /\ pool = <<>>
    /\ indices = <<>>
    /\ evaluated = 0
    /\ result = NotReturned
    /\ report = <<>>
    /\ BattleIdle
    /\ ParseIdle

(* attacking_army = Army(att) *)
AttackingArmyInit ==
    /\ pc = "start"
    /\ attacking_army' = ArmyInit("att")
    /\ pc' = "attacking_built"
    /\ UNCHANGED <<heap, defending_army, defending_platoons, pool, indices,
                   evaluated, result, report>>
    /\ UNCHANGED <<battleVars, parseVars>>

(* defending_army = Army(def) *)
DefendingArmyInit ==
    /\ pc = "attacking_built"
    /\ defending_army' = ArmyInit("def")
    /\ pc' = "armies"
    /\ UNCHANGED <<heap, attacking_army, defending_platoons, pool, indices,
                   evaluated, result, report>>
    /\ UNCHANGED <<battleVars, parseVars>>

Recruits(id) == IF id = "att" THEN AttackUnits ELSE DefendUnits

(* list.append on a list the client passed to an Army constructor *)
ListAppend(id, unit) ==
    /\ pc \in {"armies", "ready"}
    /\ Len(heap[id]) < MaxLen
    /\ heap' = [heap EXCEPT ![id] = Append(@, unit)]
    /\ UNCHANGED <<pc, attacking_army, defending_army, defending_platoons,
                   pool, indices, evaluated, result, report>>
    /\ UNCHANGED <<battleVars, parseVars>>

(* list.pop on a list the client passed to an Army constructor *)
ListPop(id) ==
    /\ pc \in {"armies", "ready"}
    /\ Len(heap[id]) > 0
    /\ heap' = [heap EXCEPT ![id] = SubSeq(@, 1, Len(@) - 1)]
    /\ UNCHANGED <<pc, attacking_army, defending_army, defending_platoons,
                   pool, indices, evaluated, result, report>>
    /\ UNCHANGED <<battleVars, parseVars>>

(* view = army.platoons *)
TakePlatoons(army) ==
    /\ pc = "ready"
    /\ heap' = [heap EXCEPT !["view"] = platoons(army, heap)]
    /\ pc' = "holding"
    /\ UNCHANGED <<attacking_army, defending_army, defending_platoons, pool,
                   indices, evaluated, result, report>>
    /\ UNCHANGED <<battleVars, parseVars>>

(* view.append(unit) *)
ViewAppend(unit) ==
    /\ pc = "holding"
    /\ heap' = [heap EXCEPT !["view"] = Append(@, unit)]
    /\ pc' = "view_changed"
    /\ UNCHANGED <<attacking_army, defending_army, defending_platoons, pool,
                   indices, evaluated, result, report>>
    /\ UNCHANGED <<battleVars, parseVars>>

(* view.pop() *)
ViewPop ==
    /\ pc = "holding"
    /\ Len(heap["view"]) > 0
    /\ heap' = [heap EXCEPT !["view"] = SubSeq(@, 1, Len(@) - 1)]
    /\ pc' = "view_changed"
    /\ UNCHANGED <<attacking_army, defending_army, defending_platoons, pool,
                   indices, evaluated, result, report>>
    /\ UNCHANGED <<battleVars, parseVars>>

(* del view: the client lets the copy go *)
ViewDrop ==
    /\ pc \in {"holding", "view_changed"}
    /\ heap' = [heap EXCEPT !["view"] = <<>>]
    /\ pc' = "ready"
    /\ UNCHANGED <<attacking_army, defending_army, defending_platoons, pool,
                   indices, evaluated, result, report>>
    /\ UNCHANGED <<battleVars, parseVars>>

(* WarSimulation.__init__: the two assignments, then _validate_armies. *)
WarSimulationInit ==
    /\ pc = "armies"
    /\ pc' = IF validate_armies(attacking_army, defending_army, heap)
             THEN "ready"
             ELSE "ValueError"
    /\ UNCHANGED <<heap, attacking_army, defending_army, defending_platoons,
                   pool, indices, evaluated, result, report>>
    /\ UNCHANGED <<battleVars, parseVars>>

(* find_winning_arrangement up to the loop: the copy of the defenders and  *)
(* the permutations object over a copy of the attackers.                   *)
FindBegin ==
    /\ pc = "ready"
    /\ defending_platoons' = platoons(defending_army, heap)
    /\ pool' = platoons(attacking_army, heap)
    /\ indices' = FirstIndices(Len(pool'))
    /\ evaluated' = 0
    /\ pc' = "searching"
    /\ UNCHANGED <<heap, attacking_army, defending_army, result, report>>
    /\ UNCHANGED <<battleVars, parseVars>>

(* One pass of the loop whose arrangement wins: return Army(list(arrangement)). *)
FindReturnArrangement ==
    /\ pc = "searching"
    /\ LET arrangement == Arrangement(pool, indices)
           battles == simulate_battles(arrangement, defending_platoons)
       IN  /\ is_winning_arrangement(battles)
           /\ heap' = [heap EXCEPT !["res"] = arrangement]
    /\ result' = Found(ArmyInit("res"))
    /\ evaluated' = evaluated + 1
    /\ pc' = "searched"
    /\ UNCHANGED <<attacking_army, defending_army, defending_platoons, pool,
                   indices, report>>
    /\ UNCHANGED <<battleVars, parseVars>>

(* One pass of the loop whose arrangement does not win, another one left. *)
FindNextArrangement ==
    /\ pc = "searching"
    /\ LET arrangement == Arrangement(pool, indices)
           battles == simulate_battles(arrangement, defending_platoons)
       IN  ~is_winning_arrangement(battles)
    /\ HasNextIndices(indices)
    /\ indices' = NextIndices(indices)
    /\ evaluated' = evaluated + 1
    /\ UNCHANGED <<pc, heap, attacking_army, defending_army,
                   defending_platoons, pool, result, report>>
    /\ UNCHANGED <<battleVars, parseVars>>

(* The last pass of the loop, its arrangement does not win: return None. *)
FindReturnNone ==
    /\ pc = "searching"
    /\ LET arrangement == Arrangement(pool, indices)
           battles == simulate_battles(arrangement, defending_platoons)
       IN  ~is_winning_arrangement(battles)
    /\ ~HasNextIndices(indices)
    /\ result' = None
    /\ evaluated' = evaluated + 1
    /\ pc' = "searched"
    /\ UNCHANGED <<heap, attacking_army, defending_army, defending_platoons,
                   pool, indices, report>>
    /\ UNCHANGED <<battleVars, parseVars>>

(* battles = simulation.get_battle_report(winning_arrangement) *)
BattleReport ==
    /\ pc = "searched"
    /\ result.kind = "Army"
    /\ report' = get_battle_report(result.army, defending_army, heap)
    /\ pc' = "reported"
    /\ UNCHANGED <<heap, attacking_army, defending_army, defending_platoons,
                   pool, indices, evaluated, result>>
    /\ UNCHANGED <<battleVars, parseVars>>

Next ==
    \/ AttackingArmyInit
    \/ DefendingArmyInit
    \/ \E id \in {"att", "def"} : \E unit \in Recruits(id) : ListAppend(id, unit)
    \/ \E id \in {"att", "def"} : ListPop(id)
    \/ \E army \in {attacking_army, defending_army} : TakePlatoons(army)
    \/ \E unit \in AttackUnits \cup DefendUnits : ViewAppend(unit)
    \/ ViewPop
    \/ ViewDrop
    \/ WarSimulationInit
    \/ FindBegin
    \/ FindReturnArrangement
    \/ FindNextArrangement
    \/ FindReturnNone
    \/ BattleReport

Spec == Init /\ [][Next]_vars

----------------------------------------------------------------------------
(* A single Battle between two freshly created units. *)

\* the pairings of the scenarios and of run_unit_tests
ScenarioPairs ==
    {<<Unit("Militia", 30), Unit("Spearmen", 10)>>,
     <<Unit("Spearmen", 10), Unit("Militia", 30)>>,
     <<Unit("HeavyCavalry", 120), Unit("CavalryArcher", 100)>>}

InitBattle ==
    /\ SimIdle
    /\ ParseIdle
    /\ battle = NoBattle
    /\ \/ /\ attacker \in {create_unit(k, c) : k \in UnitType, c \in 0..MaxCount}
          /\ defender \in {create_unit(k, c) : k \in UnitType, c \in 0..MaxCount}
       \/ \E pair \in ScenarioPairs : attacker = pair[1] /\ defender = pair[2]

(* battle = Battle(attacker, defender) *)
BattleInit ==
    /\ battle = NoBattle
    /\ battle' = Battle(attacker, defender)
    /\ UNCHANGED <<attacker, defender>>
    /\ UNCHANGED <<simVars, parseVars>>

NextBattle == BattleInit

SpecBattle == InitBattle /\ [][NextBattle]_vars

----------------------------------------------------------------------------
(* The parser and the factory on texts and counts a caller may hand them. *)

\* entries of an army text: well formed, negative, unknown kind, no "#",
\* no digits, empty, one "#" too many
EntryPool ==
    {<<"Militia", "#", "5">>,
     <<"Militia", "#", "-", "5">>,
     <<"Spearmen", "#", "1", "0">>,
     <<"Pikemen", "#", "3">>,
     <<"Militia", "5">>,
     <<"Militia", "#", "-">>,
     <<>>,
     <<"Militia", "#", "5", "#", "1">>}

RECURSIVE Join(_)
Join(entries) ==
    IF Len(entries) = 1 THEN entries[1]
    ELSE entries[1] \o <<";">> \o Join(Tail(entries))

Texts ==
    {Join(es) : es \in UNION {[1..n -> EntryPool] : n \in 1..MaxEntries}}
        \cup {SampleAttacking, SampleDefending}

InitParse ==
    /\ SimIdle
    /\ BattleIdle
    /\ parsed = NotParsed
    /\ platoon_string \in Texts

(* army = PlatoonParser.parse_army(platoon_string) *)
ParseArmy ==
    /\ parsed = NotParsed
    /\ parsed' = parse_army(platoon_string)
    /\ UNCHANGED platoon_string
    /\ UNCHANGED <<simVars, battleVars>>

(* unit = UnitFactory.create_unit(unit_type, count) *)
CreateUnit(unit_type, count) ==
    /\ parsed = NotParsed
    /\ parsed' = [status |-> "Unit", platoons |-> <<create_unit(unit_type, count)>>]
    /\ UNCHANGED platoon_string
    /\ UNCHANGED <<simVars, battleVars>>

NextParse ==
    \/ ParseArmy
    \/ \E unit_type \in UnitType, count \in (0 - MaxCount)..MaxCount :
           CreateUnit(unit_type, count)

SpecParse == InitParse /\ [][NextParse]_vars

----------------------------------------------------------------------------
(* Properties of the search (Spec) *)

Perms(n) ==
    {p \in [1..n -> 1..n] : \A i, j \in 1..n : i # j => p[i] # p[j]}

LexLess(q, p) ==
    \E i \in 1..Len(p) : q[i] < p[i] /\ \A j \in 1..(i - 1) : q[j] = p[j]

RECURSIVE Factorial(_)
Factorial(n) == IF n = 0 THEN 1 ELSE n * Factorial(n - 1)

Attackers == platoons(attacking_army, heap)
Defenders == platoons(defending_army, heap)

Returned == pc \in {"searched", "reported"}

EqualCounts == Len(Attackers) = Len(Defenders)

WinsOf(p) == Wins(simulate_battles(Arrangement(Attackers, p), Defenders))

\* C1: on armies of equal platoon counts the search always has a next step
\* until it returns, takes at most n! passes, and returns None or an Army that
\* is a permutation of the attacking platoons whose battle report against the
\* defending order holds at least REQUIRED_WINS wins.
C1_SearchTotal ==
    /\ (pc = "searching" /\ Len(pool) = Len(defending_platoons)) =>
           /\ evaluated < Factorial(Len(pool))
           /\ ENABLED (FindReturnArrangement \/ FindNextArrangement
                          \/ FindReturnNone)
    /\ (Returned /\ EqualCounts) =>
           \/ result = None
           \/ /\ result.kind = "Army"
              /\ \E p \in Perms(Len(Attackers)) :
                     platoons(result.army, heap) = Arrangement(Attackers, p)
              /\ Wins(get_battle_report(result.army, defending_army, heap))
                     >= 3
              /\ evaluated <= Factorial(Len(Attackers))

C1_Witness ==
    /\ pc = "reported"
    /\ EqualCounts
    /\ result.kind = "Army"
    /\ platoons(result.army, heap) # Attackers
    /\ Wins(report) >= 3

\* C2: on armies of equal platoon counts the search returns None exactly when
\* no permutation of the attacking platoons has at least 3 wins against the
\* defending order; the sample armies of run_sample_test yield an arrangement.
C2_NoneIffNoQualifying ==
    (Returned /\ EqualCounts) =>
        /\ (result = None) <=> (\A p \in Perms(Len(Attackers)) : WinsOf(p) < 3)
        /\ (heap["att"] = parse_army(SampleAttacking).platoons
                /\ heap["def"] = parse_army(SampleDefending).platoons)
               => result.kind = "Army"

C2_Witness ==
    /\ Returned
    /\ heap["att"] = parse_army(SampleAttacking).platoons
    /\ heap["def"] = parse_army(SampleDefending).platoons
    /\ result.kind = "Army"
    /\ \E p \in Perms(Len(Attackers)) : WinsOf(p) < 3

\* C4: WarSimulation's constructor raises exactly when the two platoon counts
\* differ; when it raised, no arrangement was enumerated, no battle evaluated
\* and no result or report is ever produced.
C4_ConstructionRejectsUnequal ==
    /\ [][(pc = "armies" /\ pc' # "armies") =>
              /\ (pc' = "ValueError") <=>
                     (Len(Attackers) # Len(Defenders))
              /\ (pc' = "ready") <=> (Len(Attackers) = Len(Defenders))]_vars
    /\ [][pc = "ValueError" => pc' = "ValueError"]_vars
    /\ [](pc = "ValueError" =>
              /\ result = NotReturned
              /\ report = <<>>
              /\ evaluated = 0
              /\ indices = <<>>
              /\ pool = <<>>)

C4_Witness ==
    /\ pc = "ValueError"
    /\ Len(Attackers) = 3
    /\ Len(Defenders) = 2

\* C9: a returned arrangement is the first qualifying one in lexicographic
\* order of the positions of the attacking list: it is the arrangement of the
\* iterator's index order, it has at least 3 wins, every index order before
\* it has fewer than 3, and exactly the index orders up to it were evaluated.
C9_FirstInLexOrder ==
    (Returned /\ result.kind = "Army") =>
        /\ indices \in Perms(Len(Attackers))
        /\ platoons(result.army, heap) = Arrangement(Attackers, indices)
        /\ WinsOf(indices) >= 3
        /\ \A q \in Perms(Len(Attackers)) : LexLess(q, indices) => WinsOf(q) < 3
        /\ evaluated =
               1 + Cardinality({q \in Perms(Len(Attackers)) : LexLess(q, indices)})

C9_Witness ==
    /\ Returned
    /\ result.kind = "Army"
    /\ indices = <<2, 1, 3>>
    /\ Attackers[2] = Attackers[3]
    /\ evaluated = 3

\* C10 (as claimed): once an Army is constructed, no step changes what its
\* platoons and get_platoon_count report, so the counts are still equal when
\* the search starts.
C10_ArmyFixedAfterConstruction ==
    /\ [][/\ attacking_army # NoArmy =>
                 platoons(attacking_army, heap)' = platoons(attacking_army, heap)
          /\ defending_army # NoArmy =>
                 platoons(defending_army, heap)' = platoons(defending_army, heap)
         ]_vars
    /\ [](pc = "searching" => Len(pool) = Len(defending_platoons))

----------------------------------------------------------------------------
(* Properties of a single Battle (SpecBattle) *)

Fought == battle # NoBattle

Bonus == has_advantage_over(attacker, defender)
Penalty == has_advantage_over(defender, attacker)

\* C3: the outcome of a Battle is that of the reference evaluator: with the
\* attacker's advantage Win iff 2*c1 > c2 and Draw iff 2*c1 = c2; else with the
\* defender's advantage Win iff floor(c1/2) > c2 and Draw iff floor(c1/2) = c2
\* (floor(c1/2) is the h with 2*h <= c1 < 2*h + 2); else c1 against c2; Loss
\* otherwise.
C3_OutcomeMatchesReference ==
    Fought =>
        LET c1 == attacker.count
            c2 == defender.count
            half == CHOOSE h \in 0..c1 : 2 * h <= c1 /\ c1 < 2 * h + 2
            effective == IF Bonus THEN 2 * c1 ELSE IF Penalty THEN half ELSE c1
        IN  /\ battle.attacker = attacker /\ battle.defender = defender
            /\ (battle.outcome = WIN) <=> (effective > c2)
            /\ (battle.outcome = DRAW) <=> (effective = c2)
            /\ (battle.outcome = LOSS) <=> (effective < c2)
            /\ Bonus => ((battle.outcome = WIN) <=> (2 * c1 > c2))
            /\ (~Bonus /\ Penalty) =>
                   ((battle.outcome = WIN) <=> (c1 >= 2 * c2 + 2))
            /\ (~Bonus /\ ~Penalty) => ((battle.outcome = WIN) <=> (c1 > c2))

C3_Witness ==
    /\ Fought
    /\ Penalty
    /\ attacker.count = 3
    /\ defender.count = 1
    /\ battle.outcome = DRAW

\* C5: for every pair of unit kinds, equal kinds included, the two units never
\* both have advantage over the other, so the bonus and the penalty of a
\* Battle never both apply.
C5_AdvantageAsymmetric ==
    /\ ~(Bonus /\ Penalty)
    /\ attacker.unit_type = defender.unit_type => ~Bonus
    /\ (Fought /\ Bonus) =>
           get_effective_count(attacker, defender)
               = attacker.count * ADVANTAGE_MULTIPLIER

C5_Witness ==
    /\ Fought
    /\ attacker.unit_type = "Spearmen"
    /\ defender.unit_type = "Militia"
    /\ Penalty
    /\ ~Bonus

\* C6 (as claimed): HeavyCavalry 120 attacking CavalryArcher 100 has no
\* advantage either way, an effective count of 120 and the outcome Win.
C6_NoAdvantageWin ==
    (Fought /\ attacker = Unit("HeavyCavalry", 120)
            /\ defender = Unit("CavalryArcher", 100)) =>
        /\ ~Bonus
        /\ ~Penalty
        /\ get_effective_count(attacker, defender) = 120
        /\ battle.outcome = WIN

\* C6 (amended): HeavyCavalry 120 attacking CavalryArcher 100 is at a
\* disadvantage (CavalryArcher lists HeavyCavalry), so the effective count is
\* 120 // 2 = 60 and the outcome is Loss.
C6_DisadvantageLoss ==
    (Fought /\ attacker = Unit("HeavyCavalry", 120)
            /\ defender = Unit("CavalryArcher", 100)) =>
        /\ ~Bonus
        /\ Penalty
        /\ get_effective_count(attacker, defender) = 60
        /\ battle.outcome = LOSS

C6_Witness ==
    /\ Fought
    /\ attacker = Unit("HeavyCavalry", 120)
    /\ defender = Unit("CavalryArcher", 100)

\* C7 (as claimed): a group of count 0 loses against any count >= 1, on either
\* side and whatever the kinds, and a Battle with a count-0 group is a Draw
\* only if the other count is 0 too.
C7_ZeroAlwaysLoses ==
    Fought =>
        /\ (attacker.count = 0 /\ defender.count >= 1) => battle.outcome = LOSS
        /\ (defender.count = 0 /\ attacker.count >= 1) => battle.outcome = WIN
        /\ ((attacker.count = 0 \/ defender.count = 0) /\ battle.outcome = DRAW)
               => (attacker.count = 0 /\ defender.count = 0)

\* C7 (amended): an attacker of count 0 loses against any defender of count
\* >= 1; a defender of count 0 loses against any attacker of count >= 1,
\* except an attacker of count exactly 1 whose kind the defender's kind has
\* advantage over: that Battle is a Draw (1 // 2 = 0); a Battle with a count-0
\* group is a Draw only if both counts are 0 or in that one case.
C7_ZeroLosesButForHalvedOne ==
    Fought =>
        LET halvedOne == attacker.count = 1 /\ defender.count = 0 /\ Penalty
        IN  /\ (attacker.count = 0 /\ defender.count >= 1) =>
                   battle.outcome = LOSS
            /\ (defender.count = 0 /\ attacker.count >= 1 /\ ~halvedOne) =>
                   battle.outcome = WIN
            /\ halvedOne => battle.outcome = DRAW
            /\ ((attacker.count = 0 \/ defender.count = 0)
                    /\ battle.outcome = DRAW)
                   => ((attacker.count = 0 /\ defender.count = 0) \/ halvedOne)

C7_Witness ==
    /\ Fought
    /\ attacker = Unit("Spearmen", 1)
    /\ defender = Unit("Militia", 0)
    /\ battle.outcome = DRAW

----------------------------------------------------------------------------
(* Properties of the parser and the factory (SpecParse) *)

\* C8 (as claimed): a negative count is rejected, so every unit parse_army or
\* create_unit hands back has a count >= 0.
C8_NegativeCountRejected ==
    parsed.status \in {"Army", "Unit"} =>
        \A i \in 1..Len(parsed.platoons) : parsed.platoons[i].count >= 0

====
